---- MODULE Spec2Model ----
(***************************************************************************)
(* Model of bluebox-ng: the throttled FTP brute-force engine               *)
(* (src/modules/ftpBrute.js) and the interactive shell's option/prompt     *)
(* compiler and execution driver (src/bin/index.js).                       *)
(*                                                                         *)
(* Two specifications share the module:                                    *)
(*   Spec       one run of ftpBrute.run over a generated pair sequence     *)
(*   SpecShell  the shell: "set", and a module command (compile the        *)
(*              prompts, resolve them in order, run the module)            *)
(***************************************************************************)
EXTENDS Integers, Sequences, FiniteSets, TLC

VARIABLES
    \* ---- ftpBrute.run ----
    options,      \* the options object handed to run (users, passwords, userAsPass, delay)
    loginPairs,   \* var loginPairs
    result,       \* var result
    indexCount,   \* var indexCount (0 until the first iteratee runs)
    pos,          \* async.eachSeries: index of the item whose iteratee is running
    pc,           \* "idle" | "auth" (jsFtp.auth outstanding) | "timer" (setTimeout pending) | "done"
    attempts,     \* history: the pairs handed to jsFtp.auth, in call order
    replies,      \* history: the err argument of each auth callback, in order
    classified,   \* history: the branch of the auth callback taken for each answered attempt
    delays,       \* history: the setTimeout calls, [after |-> attempts answered, ms |-> delay]
    fired,        \* number of timers that have fired
    printed,      \* history: printer output, [valid, pair]
    cbCalls,      \* history: invocations of run's callback, [err, result]
    \* ---- shell ----
    globals,      \* const globals = {}
    shpc,         \* "idle" | "prompt" | "rejected" (prompt promise rejected) | "running"
                  \* | "thrown" (box.run threw) | "reading" (hosts/import awaits the file)
    expectedOpts, \* const expectedOpts = modulesInfo[expectedOpts].opts
    parsedOpts,   \* const parsedOpts = []
    promptPos,    \* the question the prompt library is at
    answers,      \* the answers resolved so far
    asked,        \* history: names of the questions put to the user, in order
    log,          \* logger output of the command being executed
    cmd,          \* history: the command being executed and what was typed at its prompts
    settled,      \* history: how the awaited operation of the command settled
    resolves,     \* history: calls of resolve() by the command being executed
    hosts         \* box.hosts

bruteVars == <<options, loginPairs, result, indexCount, pos, pc, attempts,
               replies, classified, delays, fired, printed, cbCalls>>
shellVars == <<globals, shpc, expectedOpts, parsedOpts, promptPos, answers, asked, log,
               cmd, settled, resolves, hosts>>
vars == <<options, loginPairs, result, indexCount, pos, pc, attempts,
          replies, classified, delays, fired, printed, cbCalls,
          globals, shpc, expectedOpts, parsedOpts, promptPos, answers, asked, log,
          cmd, settled, resolves, hosts>>

(***************************************************************************)
(* Bounds                                                                  *)
(***************************************************************************)
MaxUsers == 2
MaxPasswords == 2

RECURSIVE SeqsUpTo(_, _)
SeqsUpTo(S, n) ==
    IF n = 0 THEN {<<>>}
    ELSE LET shorter == SeqsUpTo(S, n - 1)
         IN  shorter \cup {Append(s, x) : s \in {t \in shorter : Len(t) = n - 1}, x \in S}

UserNames == {"a", "b"}
\* password lists are the prefixes of this list; "a" and "b" are also user names
PassList == <<"a", "x", "b", "y">>
UserLists == SeqsUpTo(UserNames, MaxUsers)
PassLists == {SubSeq(PassList, 1, k) : k \in 0..MaxPasswords}
Delays == {0, 100}

(***************************************************************************)
(* The protocol collaborator's answers: the err argument of the auth       *)
(* callback, as a sequence of tokens; the empty sequence is "no error".    *)
(***************************************************************************)
NoErr == <<>>
ErrRejected == <<"530", "Login", "incorrect", ".">>
ErrRejectedLower == <<"530", "login", "incorrect", ".">>
ErrRefused == <<"connect", "ECONNREFUSED">>
Replies == {NoErr, ErrRejected, ErrRejectedLower, ErrRefused}

\* /Login incorrect/.test(err): the two words, in this case, next to each other
LoginIncorrectTest(err) ==
    \E i \in 1..(Len(err) - 1) : err[i] = "Login" /\ err[i + 1] = "incorrect"

\* the state of a run, as its caller sees it
Phase ==
    CASE pc = "idle" -> "Idle"
      [] pc \in {"auth", "timer"} -> "Running"
      [] pc = "done" -> IF cbCalls[1].err = NoErr THEN "Completed" ELSE "Aborted"

(***************************************************************************)
(* utils.createLoginPairs                                                  *)
(***************************************************************************)
PairsOfUser(u, passwords, userAsPass) ==
    (IF userAsPass THEN <<[user |-> u, pass |-> u]>> ELSE <<>>)
    \o [j \in 1..Len(passwords) |-> [user |-> u, pass |-> passwords[j]]]

RECURSIVE createLoginPairs(_, _, _)
createLoginPairs(users, passwords, userAsPass) ==
    IF users = <<>> THEN <<>>
    ELSE PairsOfUser(Head(users), passwords, userAsPass)
         \o createLoginPairs(Tail(users), passwords, userAsPass)

\* the two lists handed over in the wrong order
loginPairsSwapped(o) == createLoginPairs(o.passwords, o.users, o.userAsPass)

\* the policy flag ignored
loginPairsNoPolicy(o) == createLoginPairs(o.users, o.passwords, FALSE)

loginPairsOf(o) == createLoginPairs(o.users, o.passwords, o.userAsPass)

(***************************************************************************)
(* ftpBrute.run                                                            *)
(***************************************************************************)
outstanding == Len(attempts) - Len(classified)

\* the iteratee of eachSeries up to the call of jsFtp.auth
iteratee(i) ==
    /\ pos' = i
    /\ indexCount' = indexCount + 1
    /\ attempts' = Append(attempts, loginPairs'[i])
    /\ pc' = "auth"
    /\ UNCHANGED cbCalls

\* a final callback that reports an empty result as a failure
finalCbEmptyIsError(err) ==
    /\ pc' = "done"
    /\ cbCalls' = Append(cbCalls,
                    [err |-> IF err = NoErr /\ result' = <<>> THEN <<"Not", "found">> ELSE err,
                     result |-> result'])
    /\ UNCHANGED <<pos, indexCount, attempts>>

\* a final callback that calls back twice
finalCbTwice(err) ==
    /\ pc' = "done"
    /\ cbCalls' = cbCalls \o <<[err |-> err, result |-> result'],
                               [err |-> err, result |-> result']>>
    /\ UNCHANGED <<pos, indexCount, attempts>>

\* function (err) { callback(err, result); }
finalCb(err) ==
    /\ pc' = "done"
    /\ cbCalls' = Append(cbCalls, [err |-> err, result |-> result'])
    /\ UNCHANGED <<pos, indexCount, attempts>>

\* eachSeries' per-item callback: stop on an error, else the next item or the end
asyncCb(err) ==
    IF err # NoErr THEN finalCb(err)
    ELSE IF pos = Len(loginPairs') THEN finalCb(NoErr)
    ELSE iteratee(pos + 1)

\* a delayCb that waits after every pair, the last one too
delayCbAlways ==
    /\ pc' = "timer"
    /\ delays' = Append(delays, [after |-> Len(classified'), ms |-> options.delay])
    /\ UNCHANGED <<pos, indexCount, attempts, cbCalls>>

delayCb ==
    IF indexCount = Len(loginPairs)
    THEN /\ asyncCb(NoErr)
         /\ UNCHANGED delays
    ELSE /\ pc' = "timer"
         /\ delays' = Append(delays, [after |-> Len(classified'), ms |-> options.delay])
         /\ UNCHANGED <<pos, indexCount, attempts, cbCalls>>

\* a success branch that forgets to record the pair
OnValidNoPush(loginPair) ==
    /\ result' = result
    /\ printed' = Append(printed, [valid |-> TRUE, pair |-> loginPair])
    /\ classified' = Append(classified, "Valid")
    /\ delayCb

OnValid(loginPair) ==
    /\ result' = Append(result, loginPair)
    /\ printed' = Append(printed, [valid |-> TRUE, pair |-> loginPair])
    /\ classified' = Append(classified, "Valid")
    /\ delayCb

\* a rejection branch that reports nothing
OnInvalidSilent(loginPair) ==
    /\ result' = result
    /\ printed' = printed
    /\ classified' = Append(classified, "Invalid")
    /\ delayCb

\* a rejection branch that tries the rejected pair again
OnInvalidRetry(loginPair) ==
    /\ result' = result
    /\ printed' = Append(printed, [valid |-> FALSE, pair |-> loginPair])
    /\ classified' = Append(classified, "Invalid")
    /\ attempts' = Append(attempts, loginPair)
    /\ pc' = "auth"
    /\ UNCHANGED <<pos, indexCount, cbCalls, delays>>

OnInvalid(loginPair) ==
    /\ result' = result
    /\ printed' = Append(printed, [valid |-> FALSE, pair |-> loginPair])
    /\ classified' = Append(classified, "Invalid")
    /\ delayCb

\* an error branch that goes on with the next pair
OnFatalContinue(err) ==
    /\ result' = result
    /\ printed' = printed
    /\ classified' = Append(classified, "Fatal")
    /\ delayCb

OnFatal(err) ==
    /\ result' = result
    /\ printed' = printed
    /\ classified' = Append(classified, "Fatal")
    /\ asyncCb(err)
    /\ UNCHANGED delays

\* every iteratee started at once, as async.each would
eachStartAll ==
    /\ pos' = 1
    /\ indexCount' = Len(loginPairs')
    /\ attempts' = loginPairs'
    /\ pc' = "auth"
    /\ UNCHANGED cbCalls

\* async.eachSeries(loginPairs, iteratee, finalCb): the first step
eachSeriesStart ==
    IF loginPairs' = <<>> THEN finalCb(NoErr) ELSE iteratee(1)

\* run(options, callback) up to the first call of jsFtp.auth
Run ==
    /\ pc = "idle"
    /\ loginPairs' = loginPairsOf(options)
    /\ result' = <<>>
    /\ eachSeriesStart
    /\ UNCHANGED <<options, replies, classified, delays, fired, printed>>
    /\ UNCHANGED shellVars

\* the callback of jsFtp.auth
AuthReply ==
    /\ pc = "auth"
    /\ UNCHANGED <<options, loginPairs, fired>>
    /\ \E err \in Replies :
        LET loginPair == loginPairs[pos] IN
        /\ replies' = Append(replies, err)
        /\ IF err # NoErr
           THEN IF LoginIncorrectTest(err) THEN OnInvalid(loginPair) ELSE OnFatal(err)
           ELSE OnValid(loginPair)
    /\ UNCHANGED shellVars

\* setTimeout(asyncCb, options.delay) expires
TimerFire ==
    /\ pc = "timer"
    /\ UNCHANGED <<options, loginPairs, result, replies, classified, delays, printed>>
    /\ fired' = fired + 1
    /\ asyncCb(NoErr)
    /\ UNCHANGED shellVars

(***************************************************************************)
(* The shell's subscriber of 'info' events                                 *)
(***************************************************************************)
\* box.events.on('info', (info) => { ... }): the line it displays; a pair
\* without second member has "" there
onInfo(info) ==
    LET toPrint == IF info.pair[2] # ""
                   THEN <<info.pair[1], "  :  ", info.pair[2]>>
                   ELSE <<info.pair[1]>>
    IN  IF info.valid
        THEN [k |-> "result", v |-> [kind |-> "text", len |-> Len(toPrint) + 1,
                                     text |-> toPrint \o <<"ok_hand">>]]
        ELSE [k |-> "info", v |-> [kind |-> "text", len |-> Len(toPrint),
                                   text |-> toPrint]]

\* the subscriber is handed the run's next report
InfoEvent ==
    /\ Len(log) < Len(printed)
    /\ LET report == printed[Len(log) + 1]
       IN  log' = Append(log, onInfo([valid |-> report.valid,
                                      pair |-> <<report.pair.user, report.pair.pass>>]))
    /\ UNCHANGED <<globals, shpc, expectedOpts, parsedOpts, promptPos, answers, asked>>
    /\ UNCHANGED <<cmd, settled, resolves, hosts>>
    /\ UNCHANGED bruteVars

(***************************************************************************)
(* Properties of the brute-force run (checked under Spec)                  *)
(***************************************************************************)
n == Len(loginPairs)
NoFatal == \A k \in 1..Len(classified) : classified[k] # "Fatal"
Started == pc # "idle"

\* C1: once an attempt is answered with an error that is not the rejection
\* signal, the run is over: that attempt is the last one started, no timer
\* was set after it, and the callback has been called once with that error.
C1_FatalAbortsRun ==
    \A k \in 1..Len(classified) :
        classified[k] = "Fatal" =>
            /\ k = Len(classified)
            /\ Len(attempts) = k
            /\ \A d \in 1..Len(delays) : delays[d].after < k
            /\ pc = "done"
            /\ Len(cbCalls) = 1
            /\ cbCalls[1].err = replies[k]
            /\ cbCalls[1].err # NoErr

\* a run aborted at its second attempt (after one delay), with pairs left over
C1_Witness ==
    /\ pc = "done"
    /\ Len(classified) >= 2
    /\ classified[Len(classified)] = "Fatal"
    /\ Len(classified) < n
    /\ Len(delays) >= 1

\* C2: at most one attempt is outstanding; attempts are started in the order
\* of the pair sequence; attempt i+1 starts only after attempt i was answered
\* and the timer set after it has fired; no attempt is outstanding while a
\* timer is pending.
C2_OneAtATimeInOrder ==
    /\ outstanding \in {0, 1}
    /\ Len(attempts) <= n
    /\ attempts = SubSeq(loginPairs, 1, Len(attempts))
    /\ Len(attempts) <= fired + 1
    /\ fired <= Len(delays)
    /\ pc = "timer" => outstanding = 0 /\ fired = Len(delays) - 1
    /\ pc = "auth" => outstanding = 1 /\ fired = Len(delays)

\* the third attempt of a run is outstanding
C2_Witness ==
    /\ pc = "auth"
    /\ Len(attempts) >= 3
    /\ attempts[1] # attempts[2]

\* C3: while no attempt was fatal, the k-th timer is set after the k-th answer
\* with the configured delay and before attempt k+1 starts; a finished run over
\* n >= 1 pairs has set exactly n-1 timers, none after the last pair.
C3_DelaysBetweenAttempts ==
    NoFatal =>
        /\ \A d \in 1..Len(delays) : delays[d] = [after |-> d, ms |-> options.delay]
        /\ pc = "auth" => Len(delays) = Len(attempts) - 1
        /\ pc = "timer" => Len(delays) = Len(attempts) /\ Len(attempts) < n
        /\ (pc = "done" /\ n >= 1) =>
              /\ Len(classified) = n
              /\ Len(delays) = n - 1
              /\ fired = n - 1

\* a run over at least three pairs finished without a fatal error
C3_Witness ==
    /\ pc = "done"
    /\ NoFatal
    /\ n >= 3
    /\ Len(delays) = n - 1

RECURSIVE ValidAttempts(_)
\* the pairs among the first k attempts whose answer was classified Valid
ValidAttempts(k) ==
    IF k = 0 THEN <<>>
    ELSE IF classified[k] = "Valid" THEN Append(ValidAttempts(k - 1), attempts[k])
    ELSE ValidAttempts(k - 1)

\* C4: when the run ends, the result handed to the callback is exactly the
\* attempted pairs classified Valid, in attempt order.
C4_ResultIsValidSubsequence ==
    pc = "done" =>
        /\ Len(cbCalls) = 1
        /\ cbCalls[1].result = ValidAttempts(Len(classified))
        /\ result = cbCalls[1].result

\* an aborted run whose partial result holds two equal pairs, with an Invalid
\* attempt among the answered ones
C4_Witness ==
    /\ pc = "done"
    /\ ~NoFatal
    /\ Len(result) = 2
    /\ result[1] = result[2]
    /\ \E k \in 1..Len(classified) : classified[k] = "Invalid"

\* C5: a run in which every pair was answered and none fatally is over and
\* its callback got no error, whatever the result holds (also for no pairs).
C5_ExhaustedRunSucceeds ==
    (Started /\ NoFatal /\ Len(classified) = n) =>
        /\ pc = "done"
        /\ cbCalls = <<[err |-> NoErr, result |-> result]>>

\* a run over at least two pairs, none of them valid, has completed
C5_Witness ==
    /\ pc = "done"
    /\ NoFatal
    /\ n >= 2
    /\ result = <<>>
    /\ cbCalls[1].err = NoErr

\* the run over the empty pair sequence has completed
C5_WitnessEmpty ==
    /\ pc = "done"
    /\ n = 0
    /\ options.users # <<>>

(***************************************************************************)
(* Properties of the pair generator (checked under Spec)                   *)
(***************************************************************************)
BlockLen == Len(options.passwords) + (IF options.userAsPass THEN 1 ELSE 0)

\* the pair expected at place j of the block of user u
ExpectedPair(u, j) ==
    IF options.userAsPass
    THEN IF j = 1 THEN [user |-> u, pass |-> u]
         ELSE [user |-> u, pass |-> options.passwords[j - 1]]
    ELSE [user |-> u, pass |-> options.passwords[j]]

RECURSIVE ReportsDue(_)
ReportsDue(k) ==
    IF k = 0 THEN <<>>
    ELSE ReportsDue(k - 1)
         \o (IF classified[k] = "Fatal" THEN <<>>
             ELSE <<[valid |-> classified[k] = "Valid", pair |-> attempts[k]]>>)

\* C14: the reports made so far are, in attempt order, one positive report
\* per Valid attempt and one negative report per Invalid attempt, each naming
\* its pair, none for a Fatal attempt, and the report of an attempt is made
\* before the next attempt starts; the subscriber displays a report as a
\* highlighted result exactly when its valid flag is set, naming the pair.
C14_OneReportPerAttempt ==
    /\ printed = ReportsDue(Len(classified))
    /\ Len(attempts) <= Len(classified) + 1
    /\ \A k \in 1..Len(log) :
          /\ log[k].k = (IF printed[k].valid THEN "result" ELSE "info")
          /\ log[k].v.text[1] = printed[k].pair.user
          /\ log[k].v.text[3] = printed[k].pair.pass

\* a rejected, an accepted and a failed attempt, the two reports displayed
C14_Witness ==
    /\ classified = <<"Invalid", "Valid", "Fatal">>
    /\ Len(printed) = 2
    /\ Len(log) = 2
    /\ log[1].k = "info"
    /\ log[2].k = "result"

(***************************************************************************)
(* Properties of the run's life cycle (checked under Spec and FairSpec)    *)
(***************************************************************************)
\* the moves of a run: it starts, and ends with a result or with an error; a
\* run over no pair at all starts and ends in the same step
LifeCycle ==
    /\ Phase = "Idle" => \/ Phase' = "Running"
                         \/ Phase' = "Completed" /\ loginPairs' = <<>>
    /\ Phase = "Running" => Phase' \in {"Running", "Completed", "Aborted"}
    /\ Phase \in {"Completed", "Aborted"} => UNCHANGED vars
    /\ attempts' # attempts =>
          /\ Len(attempts) < Len(loginPairs')
          /\ attempts' = SubSeq(loginPairs', 1, Len(attempts) + 1)

\* C15: a run only moves Idle -> Running -> Completed or Aborted; nothing
\* changes after Completed or Aborted; the attempts made are a prefix of the
\* pair sequence, each position attempted at most once, so a rejected pair is
\* never tried again.
C15_LifeCycle ==
    /\ [](Len(attempts) <= Len(loginPairs))
    /\ [](attempts = SubSeq(loginPairs, 1, Len(attempts)))
    /\ [][LifeCycle]_vars

\* an aborted run whose first pair was rejected and not tried again
C15_Witness ==
    /\ Phase = "Aborted"
    /\ classified = <<"Invalid", "Fatal">>
    /\ attempts = SubSeq(loginPairs, 1, 2)
    /\ Len(loginPairs) > 2

\* C18: with every attempt answered once and every timer expiring, a started
\* run ends, whatever the pair sequence and the delay, and the completion
\* callback is called exactly once, with the error or with the final result.
C18_RunTerminates ==
    /\ [](Len(cbCalls) <= 1)
    /\ [](pc = "done" =>
            /\ Len(cbCalls) = 1
            /\ cbCalls[1].result = result
            /\ cbCalls[1].err # NoErr <=>
                  (classified # <<>> /\ classified[Len(classified)] = "Fatal"))
    /\ Started ~> (pc = "done" /\ Len(cbCalls) = 1)

\* a run with a delay ended after its timers expired
C18_Witness ==
    /\ pc = "done"
    /\ Len(cbCalls) = 1
    /\ options.delay > 0
    /\ fired = 2
    /\ Len(classified) = 3

(***************************************************************************)
(* JavaScript values of the shell                                          *)
(***************************************************************************)
Undefined == [t |-> "undefined", n |-> 0, s |-> <<>>]
Null == [t |-> "null", n |-> 0, s |-> <<>>]
Num(k) == [t |-> "number", n |-> k, s |-> <<>>]
Bool(b) == [t |-> "boolean", n |-> IF b THEN 1 ELSE 0, s |-> <<>>]
Str(cs) == [t |-> "string", n |-> 0, s |-> cs]

\* ToBoolean
Truthy(v) ==
    CASE v.t = "undefined" -> FALSE
      [] v.t = "null" -> FALSE
      [] v.t = "number" -> v.n # 0
      [] v.t = "boolean" -> v.n = 1
      [] v.t = "string" -> v.s # <<>>

toLowerChar(c) ==
    CASE c = "Y" -> "y"
      [] c = "E" -> "e"
      [] c = "S" -> "s"
      [] c = "N" -> "n"
      [] c = "O" -> "o"
      [] OTHER -> c

\* String.prototype.toLowerCase, on a string given as its characters
toLowerCase(cs) == [k \in 1..Len(cs) |-> toLowerChar(cs[k])]

\* utils.includes(list, x)
includes(list, x) == \E k \in 1..Len(list) : list[k] = x

(***************************************************************************)
(* The registered modules (modulesInfo): every option list of 1..MaxOpts   *)
(* options; option i is named OptNames[i]; an option has a default or a    *)
(* "when" condition on some option name.                                   *)
(***************************************************************************)
MaxOpts == 2

OptNames == <<"target", "port", "transport", "timeout">>
NoSuchOpt == "profile"
WhenRefs == {OptNames[i] : i \in 1..MaxOpts} \cup {NoSuchOpt}

sYES == <<"Y", "E", "S">>
sYes == <<"Y", "e", "s">>
syes == <<"y", "e", "s">>
sNO == <<"N", "O">>
sno == <<"n", "o">>

NoWhen == [has |-> FALSE, ref |-> "", isArray |-> FALSE, val |-> <<>>, vals |-> <<>>]
\* when: { ref: "YES" }  and  when: { ref: ["no", "Yes"] }
Whens ==
    {[has |-> TRUE, ref |-> r, isArray |-> FALSE, val |-> sYES, vals |-> <<>>] : r \in WhenRefs}
    \cup
    {[has |-> TRUE, ref |-> r, isArray |-> TRUE, val |-> <<>>, vals |-> <<sno, sYes>>] : r \in WhenRefs}

OptionDefaults == {Undefined, Null, Num(0), Bool(FALSE), Str(<<>>), Str(<<"2", "1">>)}

OptionDescriptors ==
    {[default |-> d, when |-> NoWhen] : d \in OptionDefaults}
    \cup {[default |-> Undefined, when |-> w] : w \in Whens}

modulesInfo == UNION {[1..k -> OptionDescriptors] : k \in 1..MaxOpts}

\* what the user types at a module's question, and at the questions of "set"
Inputs == {<<>>, syes, sNO}
SetNames == {"", "target", "port"}
SetValues == {<<>>, <<"0">>, <<"x">>}

\* the module results and failures box.run can settle with
NoVal == [kind |-> "none", len |-> 0]
Results == {[kind |-> "undefined", len |-> 0], [kind |-> "null", len |-> 0]}
           \cup [kind : {"array", "object", "number"}, len : {0, 1}]
Failures == {[kind |-> "error", len |-> 1]}

Line(k) == [k |-> k, v |-> NoVal]

\* the command invoked, with the text typed at its (at most two) prompts
Command(name, a, b) == [name |-> name, a |-> a, b |-> b]
NoCommand == Command("none", "", <<>>)

\* box.hosts at startup, and the sessions a file can hold
NoHosts == "{}"
Sessions == {"{}", "{h1}"}
\* what a file read by hosts/import can contain, and what the user types at
\* a "path" or "id" prompt
Contents == Sessions \cup {"not json"}
Paths == {<<>>, <<"p">>}
Ids == {<<>>, <<"h">>}
\* JSON.parse(content) returns for a session's text and throws otherwise
Parses(content) == content \in Sessions
JSONparse(content) == content

(***************************************************************************)
(* The option/prompt compiler                                              *)
(***************************************************************************)
\* a compiler that tests the option's default by truthiness
finalDefaultTruthy(name, expectedOpt) ==
    IF name \in DOMAIN globals /\ Truthy(globals[name]) THEN globals[name]
    ELSE IF Truthy(expectedOpt.default) THEN expectedOpt.default
    ELSE Null

\* a compiler that prefers the option's default to the global parameter
finalDefaultOwnFirst(name, expectedOpt) ==
    IF expectedOpt.default # Undefined THEN expectedOpt.default
    ELSE IF name \in DOMAIN globals /\ Truthy(globals[name]) THEN globals[name]
    ELSE Null

\* let finalDefault = null; if (globals[name]) ... else if (default !== undefined) ...
finalDefault(name, expectedOpt) ==
    IF name \in DOMAIN globals /\ Truthy(globals[name]) THEN globals[name]
    ELSE IF expectedOpt.default # Undefined THEN expectedOpt.default
    ELSE Null

\* toPush, with  if (finalDefault !== null) { toPush.default = finalDefault; }
toPush(name, expectedOpt) ==
    LET fd == finalDefault(name, expectedOpt)
    IN  [name |-> name, when |-> expectedOpt.when,
         hasDefault |-> fd # Null, default |-> fd]

\* utils.each(utils.keys(expectedOpts), ...): one prompt per option, in key order
compile(opts) == [i \in 1..Len(opts) |-> toPush(OptNames[i], opts[i])]

\* a visibility test that shows every option
whenAlways(w, res) == "true"

\* toPush.when(res): "true", "false", or "throw" for the TypeError of calling
\* toLowerCase on undefined or on a value that is not a string
when(w, res) ==
    IF w.has
    THEN LET toLook == w.ref
             valids == IF ~w.isArray THEN <<w.val>> ELSE w.vals
             lowered == [k \in 1..Len(valids) |-> toLowerCase(valids[k])]
         IN  IF toLook \notin DOMAIN res THEN "throw"
             ELSE IF res[toLook].t # "string" THEN "throw"
             ELSE IF ~includes(lowered, toLowerCase(res[toLook].s)) THEN "false"
             ELSE "true"
    ELSE "true"

\* the prompt library's answer to an input question: the typed text, or the
\* default (if any) when nothing was typed
promptAnswer(q, input) ==
    IF input # <<>> THEN Str(input)
    ELSE IF q.hasDefault /\ q.default \notin {Undefined, Null} THEN q.default
    ELSE Str(<<>>)

(***************************************************************************)
(* The shell's commands                                                    *)
(***************************************************************************)
\* resolve(): the command is over, its closure is gone
resolve ==
    /\ shpc' = "idle"
    /\ expectedOpts' = <<>>
    /\ parsedOpts' = <<>>
    /\ promptPos' = 0
    /\ answers' = << >>
    /\ asked' = <<>>

\* a "set" that stores whatever was typed
setStoreAnything(name, value) ==
    /\ globals' = (name :> Str(value)) @@ globals
    /\ log' = <<Line("json")>>

\* a "set" that tests the name only
setStoreEmptyValue(name, value) ==
    IF name = "" THEN
        /\ log' = <<Line("error: Empty name")>>
        /\ UNCHANGED globals
    ELSE
        /\ globals' = (name :> Str(value)) @@ globals
        /\ log' = <<Line("json")>>

\* the handler of the "set" command, given the two answers
set(name, value) ==
    IF name = "" THEN
        /\ log' = <<Line("error: Empty name")>>
        /\ UNCHANGED globals
    ELSE IF ~Truthy(Str(value)) THEN
        /\ log' = <<Line("error: Empty value")>>
        /\ UNCHANGED globals
    ELSE
        /\ globals' = (name :> Str(value)) @@ globals
        /\ log' = <<Line("json")>>

CmdSet ==
    /\ shpc = "idle"
    /\ \E name \in SetNames, value \in SetValues :
        /\ set(name, value)
        /\ cmd' = Command("set", name, value)
    /\ settled' = NoVal
    /\ resolve
    /\ resolves' = 1
    /\ UNCHANGED hosts
    /\ UNCHANGED bruteVars

\* a module command up to the call of prompt(parsedOpts)
CmdModule ==
    /\ shpc = "idle"
    /\ \E opts \in modulesInfo :
        /\ expectedOpts' = opts
        /\ parsedOpts' = compile(opts)
    /\ log' = <<Line("subtitle")>>
    /\ shpc' = "prompt"
    /\ promptPos' = 1
    /\ answers' = << >>
    /\ asked' = <<>>
    /\ cmd' = Command("module", "", <<>>)
    /\ settled' = NoVal
    /\ resolves' = 0
    /\ UNCHANGED <<globals, hosts>>
    /\ UNCHANGED bruteVars

\* the prompt library reaches a question whose when() is true and asks it
PromptAsk ==
    /\ shpc = "prompt"
    /\ promptPos <= Len(parsedOpts)
    /\ LET q == parsedOpts[promptPos] IN
        /\ when(q.when, answers) = "true"
        /\ \E input \in Inputs :
              answers' = (q.name :> promptAnswer(q, input)) @@ answers
        /\ asked' = Append(asked, q.name)
    /\ promptPos' = promptPos + 1
    /\ UNCHANGED <<globals, shpc, expectedOpts, parsedOpts, log>>
    /\ UNCHANGED <<cmd, settled, resolves, hosts>>
    /\ UNCHANGED bruteVars

\* ... whose when() is false: the question is skipped
PromptSkip ==
    /\ shpc = "prompt"
    /\ promptPos <= Len(parsedOpts)
    /\ when(parsedOpts[promptPos].when, answers) = "false"
    /\ promptPos' = promptPos + 1
    /\ UNCHANGED <<globals, shpc, expectedOpts, parsedOpts, answers, asked, log>>
    /\ UNCHANGED <<cmd, settled, resolves, hosts>>
    /\ UNCHANGED bruteVars

\* ... whose when() throws: the prompt's promise is rejected
PromptThrow ==
    /\ shpc = "prompt"
    /\ promptPos <= Len(parsedOpts)
    /\ when(parsedOpts[promptPos].when, answers) = "throw"
    /\ shpc' = "rejected"
    /\ settled' = [kind |-> "prompt error", len |-> 1]
    /\ UNCHANGED <<globals, expectedOpts, parsedOpts, promptPos, answers, asked, log>>
    /\ UNCHANGED <<cmd, resolves, hosts>>
    /\ UNCHANGED bruteVars

\* an outer catch that resolves without reporting the failure
PromptCatchSilent ==
    /\ shpc \in {"rejected", "thrown"}
    /\ log' = log
    /\ resolve
    /\ resolves' = resolves + 1
    /\ UNCHANGED <<globals, cmd, settled, hosts>>
    /\ UNCHANGED bruteVars

\* .catch((err) => { logger.error('Getting the options', err); resolve(); })
PromptCatch ==
    /\ shpc \in {"rejected", "thrown"}
    /\ log' = Append(log, Line("error: Getting the options"))
    /\ resolve
    /\ resolves' = resolves + 1
    /\ UNCHANGED <<globals, cmd, settled, hosts>>
    /\ UNCHANGED bruteVars

\* .then((answers) => { ... box.run(moduleName, answers) ... })
PromptDone ==
    /\ shpc = "prompt"
    /\ promptPos > Len(parsedOpts)
    /\ log' = log \o <<Line("Running the module"), Line("time")>>
    /\ shpc' = "running"
    /\ UNCHANGED <<globals, expectedOpts, parsedOpts, promptPos, answers, asked>>
    /\ UNCHANGED <<cmd, settled, resolves, hosts>>
    /\ UNCHANGED bruteVars

\* the same handler when the call box.run(moduleName, answers) itself throws:
\* the promise of .then is rejected and the outer .catch gets the error
PromptDoneRunThrows ==
    /\ shpc = "prompt"
    /\ promptPos > Len(parsedOpts)
    /\ log' = log \o <<Line("Running the module"), Line("time")>>
    /\ shpc' = "thrown"
    /\ settled' = [kind |-> "thrown", len |-> 1]
    /\ UNCHANGED <<globals, expectedOpts, parsedOpts, promptPos, answers, asked>>
    /\ UNCHANGED <<cmd, resolves, hosts>>
    /\ UNCHANGED bruteVars

\* an emptiness test that looks at mappings only
isEmptyResultObjectOnly(res) ==
    \/ res.kind = "undefined"
    \/ res.kind = "object" /\ res.len = 0

\* !res || (isArray(res) && isEmpty(res)) || (isObject(res) && isEmpty(Object.keys(res)))
isEmptyResult(res) ==
    \/ res.kind = "undefined"
    \/ res.kind = "null"
    \/ res.kind = "number" /\ res.len = 0
    \/ res.kind = "array" /\ res.len = 0
    \/ res.kind = "object" /\ res.len = 0

\* box.run(...).then((res) => { ... })
ModuleResolve ==
    /\ shpc = "running"
    /\ \E res \in Results :
        /\ log' = log \o <<Line("Module run finished"), Line("timeEnd"), Line("Result")>>
                      \o (IF isEmptyResult(res) THEN <<Line("Empty")>>
                          ELSE <<[k |-> "json", v |-> res], Line("regular")>>)
        /\ settled' = res
    /\ resolve
    /\ resolves' = resolves + 1
    /\ UNCHANGED <<globals, cmd, hosts>>
    /\ UNCHANGED bruteVars

\* box.run(...).catch((err) => { ... })
ModuleReject ==
    /\ shpc = "running"
    /\ \E err \in Failures :
        /\ log' = log \o <<Line("timeEnd"), [k |-> "error: Running the module", v |-> err]>>
        /\ settled' = err
    /\ resolve
    /\ resolves' = resolves + 1
    /\ UNCHANGED <<globals, cmd, hosts>>
    /\ UNCHANGED bruteVars

\* the other commands: none of them has "globals" on the left of an assignment
\* the command starts with an empty display and no settled promise
begin(name, a, b) ==
    /\ shpc = "idle"
    /\ cmd' = Command(name, a, b)
    /\ settled' = NoVal

\* the command waits for a file operation
await(what) ==
    /\ shpc' = what
    /\ resolves' = 0
    /\ UNCHANGED <<expectedOpts, parsedOpts, promptPos, answers, asked>>

\* env: logger.json(globals); return Promise.resolve()
CmdEnv ==
    /\ begin("env", "", <<>>)
    /\ log' = <<[k |-> "json", v |-> [kind |-> "globals", len |-> 1, store |-> globals]]>>
    /\ resolve
    /\ resolves' = 1
    /\ UNCHANGED <<globals, hosts>>
    /\ UNCHANGED bruteVars

\* misc/dicNames: logger.json(box.dics); return Promise.resolve()
CmdDicNames ==
    /\ begin("misc/dicNames", "", <<>>)
    /\ log' = <<[k |-> "json", v |-> [kind |-> "dics", len |-> 1]]>>
    /\ resolve
    /\ resolves' = 1
    /\ UNCHANGED <<globals, hosts>>
    /\ UNCHANGED bruteVars

\* hosts: the host asked for, or all of them
CmdHosts ==
    /\ \E id \in Ids :
        /\ begin("hosts", "", id)
        /\ log' = <<[k |-> "json",
                     v |-> [kind |-> "hosts", len |-> 1,
                            store |-> IF Truthy(Str(id)) THEN "host" ELSE hosts]]>>
    /\ resolve
    /\ resolves' = 1
    /\ UNCHANGED <<globals, hosts>>
    /\ UNCHANGED bruteVars

\* exit: process.exit(0), nothing runs afterwards
CmdExit ==
    /\ begin("exit", "", <<>>)
    /\ log' = <<Line("subtitle: See you!")>>
    /\ shpc' = "exited"
    /\ resolves' = 0
    /\ UNCHANGED <<expectedOpts, parsedOpts, promptPos, answers, asked>>
    /\ UNCHANGED <<globals, hosts>>
    /\ UNCHANGED bruteVars

\* the handler of the "path" answer of hosts/import, hosts/export (writes
\* at once) and hosts/report (reads its template first)
pathGiven(name, path, what) ==
    /\ begin(name, "", path)
    /\ IF ~Truthy(Str(path)) THEN
           /\ log' = <<Line("error: A path is mandatory")>>
           /\ resolve
           /\ resolves' = 1
       ELSE
           /\ log' = <<>>
           /\ await(what)
    /\ UNCHANGED <<globals, hosts>>
    /\ UNCHANGED bruteVars

CmdHostsImport == \E path \in Paths : pathGiven("hosts/import", path, "reading")
CmdHostsExport == \E path \in Paths : pathGiven("hosts/export", path, "writing")
CmdHostsReport == \E path \in Paths : pathGiven("hosts/report", path, "reading")

\* a continuation of a file operation that logs one line and resolves
ioDone(name, what, line) ==
    /\ shpc = what
    /\ cmd.name = name
    /\ log' = log \o <<line>>
    /\ resolve
    /\ resolves' = resolves + 1
    /\ UNCHANGED <<globals, hosts, cmd>>
    /\ UNCHANGED bruteVars

\* readFile(...).then((content) => { try { box.hosts = JSON.parse(content) }
\* catch (err) { logger.error(...); resolve(); } logger.regular(...); resolve(); })
\* the catch block does not return, so the two last statements run after it
ImportRead ==
    /\ shpc = "reading"
    /\ cmd.name = "hosts/import"
    /\ \E content \in Contents :
        IF Parses(content) THEN
            /\ hosts' = JSONparse(content)
            /\ log' = log \o <<Line("regular: File correctly imported")>>
            /\ settled' = [kind |-> "imported", len |-> 1]
            /\ resolves' = resolves + 1
        ELSE
            /\ hosts' = hosts
            /\ log' = log \o <<Line("error: Parsing the file"),
                                Line("regular: File correctly imported")>>
            /\ settled' = [kind |-> "parse error", len |-> 1]
            /\ resolves' = resolves + 2
    /\ resolve
    /\ UNCHANGED <<globals, cmd>>
    /\ UNCHANGED bruteVars

\* readFile(...).catch((err) => { logger.error('Reading the file', err); resolve(); })
ImportReadFail ==
    /\ ioDone("hosts/import", "reading", Line("error: Reading the file"))
    /\ settled' = [kind |-> "read error", len |-> 1]

\* hosts/export: writeFile(...).then / .catch
ExportWritten ==
    /\ ioDone("hosts/export", "writing", Line("regular: File correctly exported"))
    /\ settled' = [kind |-> "exported", len |-> 1]

ExportWriteFail ==
    /\ ioDone("hosts/export", "writing", Line("error: Writing the file"))
    /\ settled' = [kind |-> "write error", len |-> 1]

\* hosts/report: readFile(template).then(... writeFile ...) / .catch
ReportTemplateRead ==
    /\ shpc = "reading"
    /\ cmd.name = "hosts/report"
    /\ shpc' = "writing"
    /\ UNCHANGED <<expectedOpts, parsedOpts, promptPos, answers, asked>>
    /\ UNCHANGED <<globals, hosts, cmd, settled, resolves, log>>
    /\ UNCHANGED bruteVars

ReportTemplateFail ==
    /\ ioDone("hosts/report", "reading", Line("error: Reading the template file"))
    /\ settled' = [kind |-> "read error", len |-> 1]

ReportWritten ==
    /\ ioDone("hosts/report", "writing", Line("regular: File correctly exported"))
    /\ settled' = [kind |-> "exported", len |-> 1]

ReportWriteFail ==
    /\ ioDone("hosts/report", "writing", Line("error: Writing the report to a file"))
    /\ settled' = [kind |-> "write error", len |-> 1]

(***************************************************************************)
(* Properties of the option/prompt compiler (checked under SpecShell)      *)
(***************************************************************************)
InCommand == shpc \in {"prompt", "rejected", "running"}

\* a default the option itself defines (null is the compiler's "no default")
OwnDefault(expectedOpt) == expectedOpt.default \notin {Undefined, Null}

\* C8: for every option of the module being compiled, the prompt's default is
\* the global parameter of that name if the store has one; else the option's
\* own default if it defines one, falsy or not; else the prompt has no default.
C8_EffectiveDefault ==
    InCommand =>
        /\ Len(parsedOpts) = Len(expectedOpts)
        /\ \A i \in 1..Len(expectedOpts) :
            LET name == OptNames[i]
                q == parsedOpts[i]
            IN  IF name \in DOMAIN globals
                THEN q.hasDefault /\ q.default = globals[name]
                ELSE IF OwnDefault(expectedOpts[i])
                THEN q.hasDefault /\ q.default = expectedOpts[i].default
                ELSE ~q.hasDefault

\* one option keeps its default 0, another one's default false is overridden
\* by a global parameter
C8_Witness ==
    /\ shpc = "prompt"
    /\ Len(expectedOpts) = 2
    /\ DOMAIN globals = {"port"}
    /\ expectedOpts[1].default = Num(0)
    /\ parsedOpts[1].hasDefault
    /\ parsedOpts[1].default = Num(0)
    /\ expectedOpts[2].default = Bool(FALSE)
    /\ parsedOpts[2].default = Str(<<"0">>)

\* the answers resolved before option i was reached
AnswersBefore(i) ==
    [nm \in DOMAIN answers \cap {OptNames[j] : j \in 1..(i - 1)} |-> answers[nm]]

\* the visibility condition w is met by the answers res: the referenced option
\* has an answer and, compared case-insensitively, it is an accepted value
ConditionMet(w, res) ==
    \/ ~w.has
    \/ /\ w.ref \in DOMAIN res
       /\ res[w.ref].t = "string"
       /\ \E v \in (IF w.isArray THEN {w.vals[k] : k \in 1..Len(w.vals)} ELSE {w.val}) :
             toLowerCase(v) = toLowerCase(res[w.ref].s)

\* C9 as written: an option whose condition is unmet when it is reached (the
\* referenced option has no answer yet, or an answer outside the accepted set)
\* is skipped and has no answer, and evaluating the condition raises no error.
C9_UnmetConditionSkipsSilently ==
    InCommand =>
        /\ shpc # "rejected"
        /\ \A i \in 1..(promptPos - 1) :
              ~ConditionMet(expectedOpts[i].when, AnswersBefore(i))
                  => OptNames[i] \notin DOMAIN answers

\* C10: there is one prompt per option, in declaration order; the questions
\* asked are, in that order, the options reached so far whose condition was
\* met when they were reached, and exactly those have an answer; an option
\* whose condition is unmet is never asked.
C10_DeclarationOrder ==
    InCommand =>
        /\ Len(parsedOpts) = Len(expectedOpts)
        /\ \A i \in 1..Len(parsedOpts) :
              parsedOpts[i].name = OptNames[i] /\ parsedOpts[i].when = expectedOpts[i].when
        /\ promptPos \in 1..(Len(parsedOpts) + 1)
        /\ DOMAIN answers = {asked[k] : k \in 1..Len(asked)}
        /\ \A k \in 1..Len(asked) : \E i \in 1..(promptPos - 1) :
              /\ asked[k] = OptNames[i]
              /\ Cardinality({j \in 1..(i - 1) : OptNames[j] \in DOMAIN answers}) = k - 1
        /\ \A i \in 1..(promptPos - 1) :
              OptNames[i] \in DOMAIN answers
                  <=> ConditionMet(expectedOpts[i].when, AnswersBefore(i))
        /\ shpc = "rejected" =>
              /\ ~ConditionMet(expectedOpts[promptPos].when, AnswersBefore(promptPos))
              /\ OptNames[promptPos] \notin DOMAIN answers
        /\ shpc = "running" => promptPos = Len(parsedOpts) + 1

\* the module runs with the answer of the first option only: the second one's
\* condition on the first was evaluated and not met, so it was never asked
C10_Witness ==
    /\ shpc = "running"
    /\ Len(expectedOpts) = 2
    /\ expectedOpts[2].when.has
    /\ expectedOpts[2].when.ref = "target"
    /\ asked = <<"target">>
    /\ DOMAIN answers = {"target"}
    /\ answers["target"] = Str(sNO)

\* both options were asked, the second because the first one's answer, in
\* another case, is one of its accepted values
C10_WitnessMet ==
    /\ shpc = "running"
    /\ Len(expectedOpts) = 2
    /\ expectedOpts[2].when.has
    /\ expectedOpts[2].when.ref = "target"
    /\ asked = <<"target", "port">>
    /\ answers["target"] = Str(sNO)

(***************************************************************************)
(* Properties of the execution driver (checked under SpecDriver)           *)
(***************************************************************************)
ModuleCommandOver == shpc = "idle" /\ cmd.name = "module"
LastLine == log[Len(log)]

\* C11: a module command that was started is eventually over, and then its
\* resolve() was called exactly once, whether the module gave a result, its
\* run failed (by rejecting or by throwing) or the prompts failed; in the
\* failure cases the last thing done before resolving was to log the error.
C11_DriverAlwaysResolves ==
    /\ [](ModuleCommandOver =>
            /\ resolves = 1
            /\ settled # NoVal
            /\ settled.kind = "error" =>
                  LastLine = [k |-> "error: Running the module", v |-> settled]
            /\ settled.kind \in {"thrown", "prompt error"} =>
                  LastLine = Line("error: Getting the options"))
    /\ [](cmd.name = "module" /\ shpc # "idle" => resolves = 0)
    /\ (cmd.name = "module" /\ shpc # "idle") ~> ModuleCommandOver

\* a module command is over whose call of box.run threw
C11_Witness ==
    /\ ModuleCommandOver
    /\ settled.kind = "thrown"
    /\ resolves = 1
    /\ LastLine = Line("error: Getting the options")

\* the module command is over and box.run's promise was fulfilled
SuccessPath == ModuleCommandOver /\ settled \in Results
ReportedEmpty == LastLine = Line("Empty")
ReportedUnchanged ==
    /\ Len(log) >= 2
    /\ log[Len(log) - 1] = [k |-> "json", v |-> settled]
    /\ LastLine = Line("regular")

\* C12 (as stated): on the success path the "Empty" marker is reported
\* exactly when the result is undefined, an empty sequence or an empty
\* mapping, and every other result is reported unchanged.
C12_EmptyExactlyWhenAbsentOrEmpty ==
    SuccessPath =>
        /\ ReportedEmpty <=>
              \/ settled.kind = "undefined"
              \/ settled.kind \in {"array", "object"} /\ settled.len = 0
        /\ ~ReportedEmpty => ReportedUnchanged

\* C12 (amended): the "Empty" marker is reported exactly when the result is
\* falsy (undefined, null, the number 0), an empty sequence or an empty
\* mapping; every non-empty sequence or mapping, and every other truthy
\* result, is reported unchanged and never as the marker.
C12_EmptyWhenFalsyOrEmpty ==
    SuccessPath =>
        /\ ReportedEmpty <=>
              \/ settled.kind \in {"undefined", "null"}
              \/ settled.kind \in {"number", "array", "object"} /\ settled.len = 0
        /\ settled.kind \in {"array", "object"} /\ settled.len > 0 =>
              ReportedUnchanged /\ ~ReportedEmpty
        /\ ~ReportedEmpty => ReportedUnchanged

\* the module's result was the number 0 and the marker was reported
C12_Witness ==
    /\ SuccessPath
    /\ settled = [kind |-> "number", len |-> 0]
    /\ ReportedEmpty

\* the module's result was a non-empty mapping and it was reported unchanged
C12_WitnessNonEmpty ==
    /\ SuccessPath
    /\ settled = [kind |-> "object", len |-> 1]
    /\ ReportedUnchanged

\* how many lines of kind k the command has displayed
Count(k) == Cardinality({i \in DOMAIN log : log[i].k = k})

\* C16: a module run whose start timing marker was issued has exactly one end
\* timing marker by the time the command resolves, however the run ended, and
\* never an end marker without its start marker.
C16_TimerEndedOnce ==
    /\ Count("timeEnd") <= Count("time")
    /\ Count("time") <= 1
    /\ ModuleCommandOver => Count("timeEnd") = Count("time")

\* the same, for the runs in which box.run returned its promise
C16_TimerEndedOnceWhenSettled ==
    (ModuleCommandOver /\ settled.kind # "thrown") =>
        Count("timeEnd") = Count("time")

(***************************************************************************)
(* Properties of hosts/import (checked under SpecShell)                    *)
(***************************************************************************)
\* this step is the continuation of readFile, and the content did not parse
ParseFailedStep ==
    /\ shpc = "reading"
    /\ cmd.name = "hosts/import"
    /\ settled'.kind = "parse error"

\* C19: 'File correctly imported' is displayed only when the content was
\* parsed and stored as the session; when parsing fails the command displays
\* the parse error only, leaves the session as it was and resolves once.
C19_ImportReportsOnlyParseError ==
    [][/\ ParseFailedStep =>
            (hosts' = hosts /\ log' = <<Line("error: Parsing the file")>>)
       /\ (cmd.name = "hosts/import" /\
            Line("regular: File correctly imported") \in {log'[i] : i \in DOMAIN log'}) =>
            (settled'.kind = "imported" /\ hosts' \in Sessions)
      ]_vars

(***************************************************************************)
(* Properties of the global parameter store (checked under SpecShell)      *)
(***************************************************************************)
\* this step is the "set" command, answered with name cmd'.a and value cmd'.b
SetStep == shpc = "idle" /\ cmd'.name = "set"

\* a step changes the store only if it is a "set" with a non-empty name and
\* value, which writes that one entry; a "set" with an empty name or value
\* displays an error and leaves the store as it was
StoreFrame ==
    /\ globals' # globals =>
          /\ SetStep
          /\ cmd'.a # ""
          /\ cmd'.b # <<>>
          /\ globals' = (cmd'.a :> Str(cmd'.b)) @@ globals
    /\ (SetStep /\ cmd'.a = "") =>
          (globals' = globals /\ log' = <<Line("error: Empty name")>>)
    /\ (SetStep /\ cmd'.a # "" /\ cmd'.b = <<>>) =>
          (globals' = globals /\ log' = <<Line("error: Empty value")>>)

\* C13: the store is empty at startup and is changed only by "set": every
\* other step (compiling prompts, running a module, env, the hosts commands,
\* ...) leaves it as it was, and a "set" whose name or value is empty
\* displays an error and leaves it as it was.
C13_StoreChangedOnlyBySet == (globals = << >>) /\ [][StoreFrame]_vars

\* a "set" with an empty value was refused while the store held an entry
C13_Witness ==
    /\ shpc = "idle"
    /\ cmd.name = "set"
    /\ cmd.a # ""
    /\ cmd.b = <<>>
    /\ log = <<Line("error: Empty value")>>
    /\ globals # << >>

\* env displayed a store of two entries
C13_WitnessEnv ==
    /\ cmd.name = "env"
    /\ log[1].v.store = globals
    /\ Cardinality(DOMAIN globals) = 2

\* C17: every entry of the store has a non-empty name and a truthy value, so
\* for every option descriptor the compiler's test "if (globals[name])"
\* picks the stored value of every name that is in the store.
C17_StoreEntriesTruthy ==
    \A name \in DOMAIN globals :
        /\ name # ""
        /\ globals[name].t = "string"
        /\ globals[name].s # <<>>
        /\ Truthy(globals[name])
        /\ \A expectedOpt \in OptionDescriptors :
               finalDefault(name, expectedOpt) = globals[name]

\* the stored text "0" is the default of the prompt compiled for its option
C17_Witness ==
    /\ shpc = "prompt"
    /\ DOMAIN globals = {"target", "port"}
    /\ globals["port"] = Str(<<"0">>)
    /\ Len(parsedOpts) = 2
    /\ parsedOpts[2].default = Str(<<"0">>)

ShellIdle ==
    /\ globals = << >>
    /\ shpc = "idle"
    /\ expectedOpts = <<>>
    /\ parsedOpts = <<>>
    /\ promptPos = 0
    /\ answers = << >>
    /\ asked = <<>>
    /\ log = <<>>
    /\ cmd = NoCommand
    /\ settled = NoVal
    /\ resolves = 0
    /\ hosts = NoHosts

Init ==
    /\ options \in [users : UserLists, passwords : PassLists,
                    userAsPass : BOOLEAN, delay : Delays]
    /\ loginPairs = <<>>
    /\ result = <<>>
    /\ indexCount = 0
    /\ pos = 0
    /\ pc = "idle"
    /\ attempts = <<>>
    /\ replies = <<>>
    /\ classified = <<>>
    /\ delays = <<>>
    /\ fired = 0
    /\ printed = <<>>
    /\ cbCalls = <<>>
    /\ ShellIdle

Next == Run \/ AuthReply \/ TimerFire

Spec == Init /\ [][Next]_vars

\* the run, with the protocol collaborator answering every attempt and every
\* timer expiring
FairSpec == Init /\ [][Next]_vars /\ WF_vars(AuthReply \/ TimerFire)

\* the run, with the shell's subscriber displaying its reports
NextReports == Run \/ AuthReply \/ TimerFire \/ InfoEvent

\* the reports do not depend on the delay: one delay is enough here
InitReports == Init /\ options.delay = 100

SpecReports == InitReports /\ [][NextReports]_vars

\* the shell at startup; no brute-force run is in progress
InitShell ==
    /\ options = [users |-> <<>>, passwords |-> <<>>, userAsPass |-> FALSE, delay |-> 0]
    /\ loginPairs = <<>>
    /\ result = <<>>
    /\ indexCount = 0
    /\ pos = 0
    /\ pc = "idle"
    /\ attempts = <<>>
    /\ replies = <<>>
    /\ classified = <<>>
    /\ delays = <<>>
    /\ fired = 0
    /\ printed = <<>>
    /\ cbCalls = <<>>
    /\ ShellIdle

NextShell ==
    \/ CmdSet
    \/ CmdModule
    \/ PromptAsk
    \/ PromptSkip
    \/ PromptThrow
    \/ PromptCatch
    \/ PromptDone
    \/ PromptDoneRunThrows
    \/ ModuleResolve
    \/ ModuleReject
    \/ CmdEnv
    \/ CmdDicNames
    \/ CmdHosts
    \/ CmdExit
    \/ CmdHostsImport
    \/ ImportRead
    \/ ImportReadFail
    \/ CmdHostsExport
    \/ ExportWritten
    \/ ExportWriteFail
    \/ CmdHostsReport
    \/ ReportTemplateRead
    \/ ReportTemplateFail
    \/ ReportWritten
    \/ ReportWriteFail

SpecShell == InitShell /\ [][NextShell]_vars

\* what the user at a module's prompt, the running module and the event loop
\* do next
Progress ==
    \/ PromptAsk
    \/ PromptSkip
    \/ PromptThrow
    \/ PromptCatch
    \/ PromptDone
    \/ PromptDoneRunThrows
    \/ ModuleResolve
    \/ ModuleReject

\* the shell used for "set" and module commands only, in which a pending
\* prompt is answered, a pending module run settles and the handler of a
\* settled promise runs
NextDriver == CmdSet \/ CmdModule \/ Progress

SpecDriver == InitShell /\ [][NextDriver]_vars /\ WF_vars(Progress)

====
